---- MODULE Spec2Model ----
(***************************************************************************)
(* Tag-based cache invalidation of fastapi-cache: TagProvider              *)
(* (fastapi_cache/tag_provider.py) over the cache decorator and the       *)
(* backend it is used with (examples/in_memory/main.py).                   *)
(*                                                                         *)
(* Strings that are joined with ":" are modelled split at the ":" : a      *)
(* string is the sequence of its colon-free pieces, so that joining with   *)
(* ":" is \o and "starts with <s>:" is a prefix test on sequences.         *)
(*                                                                         *)
(* Every await of a backend call is one atomic step; the coroutines of a   *)
(* gather batch are separate tasks that interleave freely with each other  *)
(* and with every other request.                                           *)
(***************************************************************************)
EXTENDS Integers, Sequences, FiniteSets, TLC

\* ------------------------------------------------------------------ bounds
\* a file's content is one of 0..MaxVal
MaxVal == 1
\* requests to cached operations in one behaviour, when requests overlap
MaxCalls == 2
\* invalidating requests in one behaviour, when requests overlap
MaxInvs == 1
\* the same, when requests are served one after the other
SeqCalls == 4
SeqInvs == 2
\* the items of the data one provide call is given, at most
MaxItems == 2

\* ------------------------------------------------------------- basic data
\* Python's None, where an int or a dict may be missing
None == -1

NoItem == [none |-> TRUE]

\* a str element of a decoded list (the other elements are item dicts)
Str(k) == [str |-> k]

IsStr(e) == "str" \in DOMAIN e

\* main.py: the ids of files
Objs == {1, 2, 3}

\* the request handlers that call get_files / edit_file concurrently
Callers == {1, 2}


\* Python truthiness of an Optional[int]
Truthy(x) == x # None /\ x # 0

\* FastAPICache.get_expire(): the configured default expire
get_expire == 2

\* the expire a decorator may be given: absent, 0, below and above the default
TTLs == {None, 0, get_expire - 1, get_expire + 1}

\* main.py: @cache(expire=10, tag_provider=FileTagProvider)
FilesExpire == 10

\* the object_type of FileTagProvider
object_type == <<"file">>

Range(s) == {s[i] : i \in 1..Len(s)}

IsPrefix(p, s) == Len(p) <= Len(s) /\ SubSeq(s, 1, Len(p)) = p

VARIABLES
  prefix,     \* FastAPICache.get_prefix(), split at ":"
  ops,        \* the cached operations: [ns, op, expire] of each @cache(...)
  idspace,    \* the object ids an invalidation request may name
  queries,    \* the file_id_in arguments requests are made with
  files,      \* examples/in_memory/main.py: files, id -> content
  store,      \* the backend: key -> [val, ttl], ttl the seconds left
  call,       \* per caller: the getOrCompute in progress or last returned
  atasks,     \* per caller: the _append_value tasks of its provide batch
  inv,        \* the invalidate in progress or last returned
  itasks,     \* the backend.clear tasks of the invalidate batch
  left,       \* the requests still to come: [calls, invs]
  fresh,      \* history: per key its last store [key, val, rem, by, ret, ok]:
              \* rem the seconds of its TTL left, ret: the storing call has
              \* returned, ok: no invalidation or clear has run since
  reg         \* history: <<tag, key>> appended since the tag's record was last absent

vars == <<prefix, ops, idspace, queries, files, store, call, atasks, inv,
          itasks, left, fresh, reg>>

config == <<prefix, ops, idspace, queries>>

\* ------------------------------------------------------------- the coder
\* Coder.encode / Coder.decode: the stored payload wraps the value
encode(v) == [json |-> v]

decode(b) == b.json

\* ------------------------------------------------------------ the backend
\* Backend.get: the payload when the key is present; found is the truth value
\* of what get returns (None when absent, a non-empty payload otherwise)
BackendGet(s, k) ==
  IF k \in DOMAIN s THEN [found |-> TRUE, val |-> s[k].val]
  ELSE [found |-> FALSE, val |-> encode(<<>>)]

\* Backend.set(key, value, expire)
BackendSet(s, k, v, e) ==
  [x \in DOMAIN s \cup {k} |-> IF x = k THEN [val |-> v, ttl |-> e] ELSE s[x]]

\* Backend.clear(key=k): deleting an absent key is not an error
BackendDelete(s, k) == [x \in DOMAIN s \ {k} |-> s[x]]

\* Backend.clear(namespace=ns): every key under "<ns>:"
BackendClearNamespace(s, ns) ==
  [x \in {k \in DOMAIN s : ~IsPrefix(ns, k)} |-> s[x]]

\* one second passes: every entry has one second less, entries at 0 are gone
BackendExpire(s) ==
  [x \in {k \in DOMAIN s : s[k].ttl > 1} |-> [s[x] EXCEPT !.ttl = @ - 1]]

\* --------------------------------------------------------- the key builder
RECURSIVE SumPow(_)
SumPow(S) ==
  IF S = {} THEN 0
  ELSE LET m == CHOOSE x \in S : \A y \in S : x <= y
       IN 2 ^ (m - 1) + SumPow(S \ {m})

DigestBase == 16

\* the digest of the canonical arguments, rendered in digits
Digest(q) == ToString(DigestBase + SumPow(q))

\* KeyBuilder.build: namespace:operationIdentity:digest
build(ns, op, q) == ns \o op \o <<Digest(q)>>

\* ------------------------------------------------------- the files example
RECURSIVE Ascending(_)
Ascending(S) ==
  IF S = {} THEN <<>>
  ELSE LET m == CHOOSE x \in S : \A y \in S : x <= y
       IN <<m>> \o Ascending(S \ {m})

\* main.py get_files: the files that pass the file_id_in filter, as items
get_files(fs, q) ==
  LET ids == {k \in DOMAIN fs : fs[k] # None /\ (q = {} \/ k \in q)}
      ord == Ascending(ids)
  IN [i \in 1..Len(ord) |-> [id |-> ord[i], value |-> fs[ord[i]]]]

\* ---------------------------------------------------------- TagProvider
Raised == <<"raise TypeError">>

\* default_object_id_provider: f"{item['id']}"; item None raises
default_object_id_provider(item) ==
  IF item = NoItem THEN Raised ELSE <<ToString(item.id)>>

\* get_tag with the object id left out of the tag
get_tagNoId(item, object_id) == prefix \o <<"invalidation">> \o object_type

\* get_tag: object_id or self.object_id_provider(item)
get_tag(item, object_id) ==
  LET oid == IF Truthy(object_id) THEN <<ToString(object_id)>>
             ELSE default_object_id_provider(item)
  IN IF oid = Raised THEN Raised
     ELSE prefix \o <<"invalidation">> \o object_type \o oid

\* default_items_provider: the data itself
default_items_provider(data) == data

\* the larger of the expire given and the default; absent counts as the default
MaxExpire(expire) ==
  IF expire # None /\ expire > get_expire THEN expire ELSE get_expire

\* provide: expire or FastAPICache.get_expire()
ProvideExpire(expire) == IF Truthy(expire) THEN expire ELSE get_expire

\* _append_value putting the parent key first
AppendedValueFirst(value, parent_key) ==
  IF value.found THEN <<Str(parent_key)>> \o decode(value.val)
  ELSE <<Str(parent_key)>>

\* _append_value, lines 39-43: the list to write back, from the payload read
AppendedValue(value, parent_key) ==
  IF value.found THEN Append(decode(value.val), Str(parent_key))
  ELSE <<Str(parent_key)>>

\* the cache decorator's own expire: expire or FastAPICache.get_expire()
CacheExpire(expire) == IF Truthy(expire) THEN expire ELSE get_expire

\* history: key is stored anew, by call c
Restored(fr, key, val, rem, c) ==
  {f \in fr : f.key # key} \cup
  {[key |-> key, val |-> val, rem |-> rem, by |-> c, ret |-> FALSE, ok |-> TRUE]}

\* history: the call c that stored them has returned
StoredBy(fr, c) == {IF f.by = c THEN [f EXCEPT !.ret = TRUE] ELSE f : f \in fr}

\* history: an invalidation or a clear runs
Spoiled(fr) == {[f EXCEPT !.ok = FALSE, !.val = <<>>] : f \in fr}

\* history: a second passes for the stored results
Aged(fr) ==
  {IF f.rem > 1 THEN [f EXCEPT !.rem = @ - 1]
   ELSE [f EXCEPT !.rem = 0, !.val = <<>>, !.ok = FALSE] : f \in fr}

\* history: the results a call for key may expect to hit
Expected(fr, key) ==
  {f.val : f \in {g \in fr : g.key = key /\ g.ret /\ g.ok /\ g.rem > 0}}

\* history: the TTL of the last store of key has elapsed
Lapsed(fr, key) == \E f \in fr : f.key = key /\ f.rem = 0

\* history: calls that have not looked up yet expect what is still expected
Forget(cl, fr) ==
  [c \in DOMAIN cl |->
     IF cl[c].pc = "get"
     THEN [cl[c] EXCEPT !.prev = @ \cap Expected(fr, cl[c].key)]
     ELSE cl[c]]

\* history: the registrations that survive in store s2
Registered(r, s2) == {p \in r : p[1] \in DOMAIN s2}

\* ------------------------------------------------------------ task batches
\* absent, prev, lapsed (of a call) and regd, before, stale (of an
\* invalidate) are history: what held when the request started
IdleCall ==
  [pc |-> "idle", q |-> {}, ttl |-> None, key |-> <<>>, status |-> "",
   result |-> <<>>, computes |-> 0, err |-> FALSE, absent |-> FALSE,
   prev |-> {}, lapsed |-> FALSE]

IdleInv ==
  [pc |-> "idle", x |-> None, tag |-> <<>>, err |-> FALSE, regd |-> {},
   before |-> <<>>, stale |-> {}]

\* the ids of the items of a cached result (a str element is no item)
ItemIds(payload) ==
  {e.id : e \in {d \in Range(decode(payload)) : ~IsStr(d)}}

\* the value entries of store s whose result includes object x
Including(s, x) ==
  {k \in DOMAIN s : x \in ItemIds(s[k].val)}

Finished(tasks) == \A i \in 1..Len(tasks) : tasks[i].pc \in {"done", "failed"}

AllDone(tasks) == \A i \in 1..Len(tasks) : tasks[i].pc = "done"

SomeFailed(tasks) == \E i \in 1..Len(tasks) : tasks[i].pc = "failed"

\* no request is in progress and no task of an earlier batch is left
Quiet ==
  /\ \A c \in Callers : call[c].pc = "idle"
  /\ inv.pc = "idle"

\* ------------------------------------------------- getOrCompute (the @cache)
\* a request enters a cached operation o with arguments q; the key is built
CallBegin(c, o, q) ==
  /\ call[c].pc = "idle"
  /\ \A d \in Callers : d < c => call[d].pc # "idle"
  /\ left.calls > 0
  /\ left' = [left EXCEPT !.calls = @ - 1]
  /\ LET key == build(o.ns, o.op, q)
     IN call' = [call EXCEPT ![c] =
          [pc |-> "get", q |-> q, ttl |-> o.expire, key |-> key,
           status |-> "", result |-> <<>>, computes |-> 0, err |-> FALSE,
           absent |-> key \notin DOMAIN store,
           prev |-> Expected(fresh, key), lapsed |-> Lapsed(fresh, key)]]
  /\ atasks' = [atasks EXCEPT ![c] = <<>>]
  /\ UNCHANGED <<config, files, store, inv, itasks, fresh, reg>>

\* step 2-3: backend.get(key); present: decode and return, a HIT
Lookup(c) ==
  /\ call[c].pc = "get"
  /\ LET r == BackendGet(store, call[c].key)
     IN call' = [call EXCEPT ![c] =
          IF r.found
          THEN [@ EXCEPT !.pc = "done", !.status = "HIT", !.result = decode(r.val)]
          ELSE [@ EXCEPT !.pc = "compute", !.status = "MISS"]]
  /\ UNCHANGED <<config, files, store, atasks, inv, itasks, left, fresh, reg>>

\* step 4, first half: computeFn, here get_files
Compute(c) ==
  /\ call[c].pc = "compute"
  /\ call' = [call EXCEPT ![c] =
       [@ EXCEPT !.pc = "store", !.result = get_files(files, call[c].q),
                 !.computes = @ + 1]]
  /\ UNCHANGED <<config, files, store, atasks, inv, itasks, left, fresh, reg>>

\* a task of a provide batch: an _append_value coroutine with its arguments;
\* seen, over and ttl0 are history: the list it read, the list it overwrote
\* and the TTL it stored
AppendTask(key, parent_key, expire) ==
  [key |-> key, parent_key |-> parent_key, expire |-> expire, pc |-> "get",
   val |-> <<>>, seen |-> <<>>, over |-> <<>>, ttl0 |-> None]

\* provide with the arguments of _append_value mixed up
ProvideTasksSwapped(data, parent_key, expire) ==
  LET items == default_items_provider(data)
  IN [i \in 1..Len(items) |->
        AppendTask(parent_key, get_tag(items[i], None), ProvideExpire(expire))]

\* provide, lines 65-73: one _append_value coroutine per item
ProvideTasks(data, parent_key, expire) ==
  LET items == default_items_provider(data)
  IN [i \in 1..Len(items) |->
        AppendTask(get_tag(items[i], None), parent_key, ProvideExpire(expire))]


\* a store that keeps an entry already there: the first write wins
StoreFirstWins(c) ==
  /\ call[c].pc = "store"
  /\ store' = IF call[c].key \in DOMAIN store THEN store
              ELSE BackendSet(store, call[c].key, encode(call[c].result),
                              CacheExpire(call[c].ttl))
  /\ atasks' = [atasks EXCEPT ![c] =
       ProvideTasks(call[c].result, call[c].key, call[c].ttl)]
  /\ reg' = Registered(reg, store')
  /\ fresh' = Restored(fresh, call[c].key, call[c].result,
                       CacheExpire(call[c].ttl), c)
  /\ call' = [Forget(call, fresh') EXCEPT ![c].pc = "gather"]
  /\ inv' = [inv EXCEPT !.stale = @ \ {call[c].key}]
  /\ UNCHANGED <<config, files, itasks, left>>

\* step 4, second half, and step 5 up to the gather: backend.set(key, ...),
\* then provide builds its batch
Store(c) ==
  /\ call[c].pc = "store"
  /\ store' = BackendSet(store, call[c].key, encode(call[c].result),
                         CacheExpire(call[c].ttl))
  /\ atasks' = [atasks EXCEPT ![c] =
       ProvideTasks(call[c].result, call[c].key, call[c].ttl)]
  /\ reg' = Registered(reg, store')
  /\ fresh' = Restored(fresh, call[c].key, call[c].result,
                       CacheExpire(call[c].ttl), c)
  /\ call' = [Forget(call, fresh') EXCEPT ![c].pc = "gather"]
  /\ inv' = [inv EXCEPT !.stale = @ \ {call[c].key}]
  /\ UNCHANGED <<config, files, itasks, left>>

\* _append_value, lines 38-43: read the record, build the list to write
AppendGet(c, i) ==
  /\ i \in 1..Len(atasks[c])
  /\ atasks[c][i].pc = "get"
  /\ LET t == atasks[c][i]
         value == BackendGet(store, t.key)
     IN atasks' = [atasks EXCEPT ![c][i] =
          [t EXCEPT !.pc = "set", !.val = AppendedValue(value, t.parent_key),
                    !.seen = decode(value.val)]]
  /\ UNCHANGED <<config, files, store, call, inv, itasks, left, fresh, reg>>

\* _append_value appending to the record as it is at the write, atomically
AppendSetAtomic(c, i) ==
  /\ i \in 1..Len(atasks[c])
  /\ atasks[c][i].pc = "set"
  /\ LET t == atasks[c][i]
         now == AppendedValue(BackendGet(store, t.key), t.parent_key)
     IN /\ store' = BackendSet(store, t.key, encode(now), t.expire)
        /\ atasks' = [atasks EXCEPT ![c][i] =
             [t EXCEPT !.pc = "done", !.val = now, !.ttl0 = store'[t.key].ttl,
                       !.over = decode(BackendGet(store, t.key).val)]]
        /\ reg' = Registered(reg \cup {<<t.key, t.parent_key>>}, store')
  /\ UNCHANGED <<config, files, call, inv, itasks, left, fresh>>

\* _append_value, line 44: write the list back
AppendSet(c, i) ==
  /\ i \in 1..Len(atasks[c])
  /\ atasks[c][i].pc = "set"
  /\ LET t == atasks[c][i]
     IN /\ store' = BackendSet(store, t.key, encode(t.val), t.expire)
        /\ atasks' = [atasks EXCEPT ![c][i] =
             [t EXCEPT !.pc = "done", !.ttl0 = store'[t.key].ttl,
                       !.over = decode(BackendGet(store, t.key).val)]]
        /\ reg' = Registered(reg \cup {<<t.key, t.parent_key>>}, store')
  /\ UNCHANGED <<config, files, call, inv, itasks, left, fresh>>

\* provide called with data as it is: the items need not differ in their id
ProvideBegin(c, o, q, data) ==
  /\ call[c].pc = "idle"
  /\ \A d \in Callers : d < c => call[d].pc # "idle"
  /\ left.calls > 0
  /\ left' = [left EXCEPT !.calls = @ - 1]
  /\ call' = [call EXCEPT ![c] =
       [IdleCall EXCEPT !.pc = "gather", !.q = q, !.ttl = o.expire,
                        !.key = build(o.ns, o.op, q), !.result = data]]
  /\ atasks' = [atasks EXCEPT ![c] =
       ProvideTasks(data, build(o.ns, o.op, q), o.expire)]
  /\ UNCHANGED <<config, files, store, inv, itasks, fresh, reg>>

\* provide returning as soon as one append is through
ProvideReturnEarly(c) ==
  /\ call[c].pc = "gather"
  /\ \E i \in 1..Len(atasks[c]) : atasks[c][i].pc = "done"
  /\ call' = [call EXCEPT ![c].pc = "done"]
  /\ fresh' = StoredBy(fresh, c)
  /\ UNCHANGED <<config, files, store, atasks, inv, itasks, left, reg>>

\* provide, line 74: the gather is over, the request returns
ProvideReturn(c) ==
  /\ call[c].pc = "gather"
  /\ AllDone(atasks[c])
  /\ call' = [call EXCEPT ![c].pc = "done"]
  /\ fresh' = StoredBy(fresh, c)
  /\ UNCHANGED <<config, files, store, atasks, inv, itasks, left, reg>>

\* the request's outcome has been delivered and its tasks are over: the
\* handler slot is free again
CallEnd(c) ==
  /\ call[c].pc = "done"
  /\ Finished(atasks[c])
  /\ call' = [call EXCEPT ![c] = IdleCall]
  /\ atasks' = [atasks EXCEPT ![c] = <<>>]
  /\ UNCHANGED <<config, files, store, inv, itasks, left, fresh, reg>>

\* ---------------------------------------------------------------- invalidate
\* invalidate without line 92: the tag record itself is not cleared
InvalidateTasksNoTag(value, tag) ==
  LET keys == decode(value)
  IN [i \in 1..Len(keys) |-> [key |-> keys[i], pc |-> "pending"]]

\* invalidate, lines 90-92: one backend.clear per listed key, and the tag's
InvalidateTasks(value, tag) ==
  LET keys == decode(value)
  IN [i \in 1..(Len(keys) + 1) |->
        [key |-> IF i <= Len(keys) THEN keys[i] ELSE Str(tag), pc |-> "pending"]]

\* PATCH /files/x with items v: edit_file sets the file's content, then
\* invalidate(x) starts and resolves its tag
InvBegin(x, v) ==
  /\ inv.pc = "idle"
  /\ left.invs > 0
  /\ left' = [left EXCEPT !.invs = @ - 1]
  /\ files' = [files EXCEPT ![x] = v]
  /\ LET tag == get_tag(NoItem, x)
     IN inv' = [pc |-> IF tag = Raised THEN "done" ELSE "get", x |-> x,
                tag |-> tag, err |-> tag = Raised,
                regd |-> {p[2] : p \in {r \in reg : r[1] = tag}},
                before |-> store, stale |-> Including(store, x)]
  /\ itasks' = <<>>
  /\ fresh' = Spoiled(fresh)
  /\ call' = Forget(call, fresh')
  /\ UNCHANGED <<config, store, atasks, reg>>

\* invalidate without lines 87-88: an absent record is taken as an empty one
InvGetNoCheck ==
  /\ inv.pc = "get"
  /\ inv' = [inv EXCEPT !.pc = "gather"]
  /\ itasks' = InvalidateTasks(BackendGet(store, inv.tag).val, inv.tag)
  /\ UNCHANGED <<config, files, store, call, atasks, left, fresh, reg>>

\* invalidate, lines 86-92: read the record; absent: return; else the batch
InvGet ==
  /\ inv.pc = "get"
  /\ LET r == BackendGet(store, inv.tag)
     IN IF ~r.found
        THEN /\ inv' = [inv EXCEPT !.pc = "done"]
             /\ itasks' = itasks
        ELSE /\ inv' = [inv EXCEPT !.pc = "gather"]
             /\ itasks' = InvalidateTasks(r.val, inv.tag)
  /\ UNCHANGED <<config, files, store, call, atasks, left, fresh, reg>>

\* backend.clear(key=...) raising for a key that is not there
ClearTaskStrict(i) ==
  /\ i \in 1..Len(itasks)
  /\ itasks[i].pc = "pending"
  /\ IF IsStr(itasks[i].key) /\ itasks[i].key.str \in DOMAIN store
     THEN /\ store' = BackendDelete(store, itasks[i].key.str)
          /\ itasks' = [itasks EXCEPT ![i].pc = "done"]
     ELSE /\ store' = store
          /\ itasks' = [itasks EXCEPT ![i].pc = "failed"]
  /\ reg' = Registered(reg, store')
  /\ fresh' = Spoiled(fresh)
  /\ call' = Forget(call, fresh')
  /\ UNCHANGED <<config, files, atasks, inv, left>>

\* one backend.clear(key=...) of the batch; a key that is no str raises
ClearTask(i) ==
  /\ i \in 1..Len(itasks)
  /\ itasks[i].pc = "pending"
  /\ IF IsStr(itasks[i].key)
     THEN /\ store' = BackendDelete(store, itasks[i].key.str)
          /\ itasks' = [itasks EXCEPT ![i].pc = "done"]
     ELSE /\ store' = store
          /\ itasks' = [itasks EXCEPT ![i].pc = "failed"]
  /\ reg' = Registered(reg, store')
  /\ fresh' = Spoiled(fresh)
  /\ call' = Forget(call, fresh')
  /\ UNCHANGED <<config, files, atasks, inv, left>>

\* invalidate, line 93: the gather is over
InvReturn ==
  /\ inv.pc = "gather"
  /\ AllDone(itasks)
  /\ inv' = [inv EXCEPT !.pc = "done"]
  /\ UNCHANGED <<config, files, store, call, atasks, itasks, left, fresh, reg>>

InvEnd ==
  /\ inv.pc = "done"
  /\ Finished(itasks)
  /\ inv' = IdleInv
  /\ itasks' = <<>>
  /\ UNCHANGED <<config, files, store, call, atasks, left, fresh, reg>>

\* ------------------------------------------------------ clear and expiry
\* GET /clear: FastAPICache.clear(namespace=ns)
ClearNamespace(ns) ==
  /\ store' = BackendClearNamespace(store, ns)
  /\ reg' = Registered(reg, store')
  /\ fresh' = Spoiled(fresh)
  /\ call' = Forget(call, fresh')
  /\ UNCHANGED <<config, files, atasks, inv, itasks, left>>

\* a second passes
Tick ==
  /\ store' = BackendExpire(store)
  /\ reg' = Registered(reg, store')
  /\ fresh' = Aged(fresh)
  /\ call' = Forget(call, fresh')
  /\ UNCHANGED <<config, files, atasks, inv, itasks, left>>

\* ------------------------------------------------------------ failures
\* a backend call of a batch fails (BackendUnavailable): the task raises
AppendGetFailCancelling(c, i) ==
  /\ i \in 1..Len(atasks[c])
  /\ atasks[c][i].pc = "get"
  /\ atasks' = [atasks EXCEPT ![c] =
       [j \in 1..Len(@) |->
          IF j = i THEN [@[j] EXCEPT !.pc = "failed"]
          ELSE IF @[j].pc \in {"get", "set"} THEN [@[j] EXCEPT !.pc = "cancelled"]
          ELSE @[j]]]
  /\ UNCHANGED <<config, files, store, call, inv, itasks, left, fresh, reg>>

AppendGetFail(c, i) ==
  /\ i \in 1..Len(atasks[c])
  /\ atasks[c][i].pc = "get"
  /\ atasks' = [atasks EXCEPT ![c][i].pc = "failed"]
  /\ UNCHANGED <<config, files, store, call, inv, itasks, left, fresh, reg>>

AppendSetFail(c, i) ==
  /\ i \in 1..Len(atasks[c])
  /\ atasks[c][i].pc = "set"
  /\ atasks' = [atasks EXCEPT ![c][i].pc = "failed"]
  /\ UNCHANGED <<config, files, store, call, inv, itasks, left, fresh, reg>>

ClearFail(i) ==
  /\ i \in 1..Len(itasks)
  /\ itasks[i].pc = "pending"
  /\ itasks' = [itasks EXCEPT ![i].pc = "failed"]
  /\ UNCHANGED <<config, files, store, call, atasks, inv, left, fresh, reg>>

\* asyncio.gather without return_exceptions: the first exception of a task is
\* raised to the awaiting provide, the other tasks keep running
ProvideRaise(c) ==
  /\ call[c].pc = "gather"
  /\ SomeFailed(atasks[c])
  /\ call' = [call EXCEPT ![c] = [@ EXCEPT !.pc = "done", !.err = TRUE]]
  /\ fresh' = StoredBy(fresh, c)
  /\ UNCHANGED <<config, files, store, atasks, inv, itasks, left, reg>>

InvRaise ==
  /\ inv.pc = "gather"
  /\ SomeFailed(itasks)
  /\ inv' = [inv EXCEPT !.pc = "done", !.err = TRUE]
  /\ UNCHANGED <<config, files, store, call, atasks, itasks, left, fresh, reg>>

\* ------------------------------------------------------------ specifications
\* the items a PATCH replaces content v with: the next content, cyclically
NewItems(v) == {IF v = None THEN 0 ELSE (v + 1) % (MaxVal + 1)}

\* the state after FastAPICache.init(InMemoryBackend()) and the module's import
InitState(calls, invs) ==
  /\ files = [i \in idspace |-> IF i \in Objs THEN 0 ELSE None]
  /\ store = <<>>
  /\ call = [c \in Callers |-> IdleCall]
  /\ atasks = [c \in Callers |-> <<>>]
  /\ inv = IdleInv
  /\ itasks = <<>>
  /\ left = [calls |-> calls, invs |-> invs]
  /\ fresh = {}
  /\ reg = {}

\* @cache(expire=..., tag_provider=FileTagProvider) on get_files
FilesOp(e) == [ns |-> <<"">>, op |-> <<"get_files">>, expire |-> e]

Init ==
  /\ prefix = <<"">>
  /\ ops = {FilesOp(FilesExpire)}
  /\ idspace = Objs
  /\ queries = {{1, 2}, {2, 3}}
  /\ InitState(MaxCalls, MaxInvs)

Steps ==
  \/ \E c \in Callers : Lookup(c) \/ Compute(c) \/ Store(c) \/ ProvideReturn(c)
  \/ \E c \in Callers : CallEnd(c)
  \/ \E c \in Callers : \E i \in 1..Len(atasks[c]) :
        AppendGet(c, i) \/ AppendSet(c, i)
  \/ InvGet
  \/ \E i \in 1..Len(itasks) : ClearTask(i)
  \/ InvReturn
  \/ InvEnd

Next ==
  \/ \E c \in Callers : \E o \in ops : \E q \in queries : CallBegin(c, o, q)
  \/ \E x \in idspace : \E v \in NewItems(files[x]) : InvBegin(x, v)
  \/ Steps

Spec == Init /\ [][Next]_vars

\* requests are served one after the other: a request starts only when no
\* other is in progress; the tasks of one batch still interleave
NextSeq ==
  \/ Quiet /\ \E c \in Callers : \E o \in ops : \E q \in queries : CallBegin(c, o, q)
  \/ Quiet /\ \E x \in idspace : \E v \in NewItems(files[x]) : InvBegin(x, v)
  \/ Quiet /\ \E o \in ops : ClearNamespace(o.ns)
  \/ Steps

InitSeq ==
  /\ prefix = <<"">>
  /\ ops = {FilesOp(FilesExpire)}
  /\ idspace = Objs
  /\ queries = {{}, {1, 2}, {2, 3}}
  /\ InitState(SeqCalls, SeqInvs)

SpecSeq == InitSeq /\ [][NextSeq]_vars

\* the same with the clock running, for every expire the decorator may be given
NextTTL ==
  \/ NextSeq
  \/ Tick

InitTTL ==
  /\ prefix = <<"">>
  /\ \E e \in TTLs : ops = {FilesOp(e)}
  /\ idspace = Objs
  /\ queries = {{1, 2}, {2, 3}}
  /\ InitState(MaxCalls, MaxInvs)

SpecTTL == InitTTL /\ [][NextTTL]_vars

\* serial requests over a backend whose calls may fail
NextFault ==
  \/ NextSeq
  \/ \E c \in Callers : \E i \in 1..Len(atasks[c]) : AppendGetFail(c, i)
  \/ \E c \in Callers : \E i \in 1..Len(atasks[c]) : AppendSetFail(c, i)
  \/ \E i \in 1..Len(itasks) : ClearFail(i)
  \/ \E c \in Callers : ProvideRaise(c)
  \/ InvRaise

SpecFault == Init /\ [][NextFault]_vars

\* @cache(namespace="test", ...), as on main.py's index and get_date
TestOp ==
  [ns |-> <<"", "test">>, op |-> <<"get_files">>, expire |-> FilesExpire]

\* an operation named file, cached under the namespace "invalidation"
InvalidationOp ==
  [ns |-> <<"", "invalidation">>, op |-> <<"file">>, expire |-> FilesExpire]

\* the object ids whose text is the digest of a query
DigestIds == {DigestBase + SumPow(q) : q \in {{1, 2}}}

\* serial requests to operations of two namespaces, for object ids that
\* include such ids; files is a defaultdict, a PATCH creates the file
InitKeys ==
  /\ prefix = <<"">>
  /\ ops = {TestOp, InvalidationOp}
  /\ idspace = Objs \cup DigestIds
  /\ queries = {{}, {1, 2}}
  /\ InitState(MaxCalls, MaxInvs)

NextKeys ==
  \/ NextSeq
  \/ InvRaise

SpecKeys == InitKeys /\ [][NextKeys]_vars

\* the data a provide call may be given: lists of items of the ids at hand
ItemLists ==
  UNION {[1..n -> {[id |-> i, value |-> 0] : i \in idspace}] : n \in 1..MaxItems}

\* serial requests, among them provide calls whose items may share an id
NextJoin ==
  \/ NextSeq
  \/ Quiet /\ \E c \in Callers : \E o \in ops : \E q \in queries :
        \E data \in ItemLists : ProvideBegin(c, o, q, data)

InitJoin ==
  /\ prefix = <<"">>
  /\ ops = {FilesOp(FilesExpire)}
  /\ idspace = {1, 2}
  /\ queries = {{1, 2}, {2, 3}}
  /\ InitState(MaxCalls, MaxInvs)

SpecJoin == InitJoin /\ [][NextJoin]_vars

\* @cache(expire=e, tag_provider=FileTagProvider) on a second operation that
\* tags files, as get_file_keys does
KeysOp(e) == [ns |-> <<"">>, op |-> <<"get_file_keys">>, expire |-> e]

\* serial requests with the clock running, to two operations that tag the
\* same files with different expires, one below and one above the default
InitMix ==
  /\ prefix = <<"">>
  /\ ops = {FilesOp(get_expire + 1), KeysOp(get_expire - 1)}
  /\ idspace = Objs
  /\ queries = {{1, 2}, {2, 3}}
  /\ InitState(MaxCalls, MaxInvs)

SpecMix == InitMix /\ [][NextTTL]_vars

\* serial requests where a file may have the id 0: files is a defaultdict, a
\* PATCH /files/0 creates the file
InitIds ==
  /\ prefix = <<"">>
  /\ ops = {FilesOp(FilesExpire)}
  /\ idspace = Objs \cup {0}
  /\ queries = {{}, {1, 2}}
  /\ InitState(MaxCalls, MaxInvs)

SpecIds == InitIds /\ [][NextSeq]_vars

\* ------------------------------------------------------------------ claims
\* an invalidate has just handed control back without an error
InvalidateReturned == inv.pc = "done" /\ ~inv.err

Listed == {t.key.str : t \in {u \in Range(itasks) : IsStr(u.key)}}

\* C2: invalidate(X) leaves every entry whose key the record of X does not
\* list as it was (the record itself apart); in particular a cached result
\* that does not include X, and the record of every other object, are still
\* there with the same content when invalidate(X) returns.
C2_InvalidateTouchesNothingElse ==
  inv.pc \in {"gather", "done"} =>
    /\ \A k \in DOMAIN inv.before \ (Listed \cup {inv.tag}) :
         k \in DOMAIN store /\ store[k] = inv.before[k]
    /\ \A k \in DOMAIN inv.before \ (Including(inv.before, inv.x) \cup {inv.tag}) :
         k \in DOMAIN store /\ store[k] = inv.before[k]

\* invalidate(X) returns having removed a result with X while a cached result
\* without X is still stored
C2_Witness ==
  /\ InvalidateReturned
  /\ Including(inv.before, inv.x) # {}
  /\ Including(inv.before, inv.x) \cap DOMAIN store = {}
  /\ \E k \in DOMAIN store : ItemIds(store[k].val) # {} /\ inv.x \notin ItemIds(store[k].val)

\* C3: under every interleaving, once invalidate(X) has returned, no cache
\* entry that was stored before invalidate(X) started and whose items include
\* X is still present (stale: those entries, less the ones stored anew since).
C3_NoLostInvalidation ==
  InvalidateReturned => inv.stale \cap DOMAIN store = {}

\* a call has just handed control back without an error
CallReturned(c) == call[c].pc = "done" /\ ~call[c].err

\* C4: a call for a key that is absent from the backend is a MISS and runs
\* computeFn exactly once; a call with the same arguments that starts after
\* that call returned, before the TTL has elapsed and with no invalidation or
\* clear in between, is a HIT with the same value and does not run computeFn.
C4_CacheCorrectness ==
  \A c \in Callers : CallReturned(c) =>
    /\ call[c].absent => call[c].status = "MISS" /\ call[c].computes = 1
    /\ call[c].prev # {} =>
         /\ call[c].status = "HIT"
         /\ call[c].prev = {call[c].result}
         /\ call[c].computes = 0

\* a second call returns as a HIT with the items the first one stored
C4_Witness ==
  \E c \in Callers :
    /\ CallReturned(c)
    /\ call[c].prev # {}
    /\ call[c].status = "HIT"
    /\ Len(call[c].result) = 2

\* the tasks of provide batches that have written their record
WrittenTasks ==
  {t \in UNION {Range(atasks[c]) : c \in Callers} : t.pc = "done"}

\* every key registered under a tag since its record was last cleared or
\* expired is an element of the stored record
Enumerable ==
  \A p \in reg :
    /\ p[1] \in DOMAIN store
    /\ Str(p[2]) \in Range(decode(store[p[1]].val))

\* C5 as stated: when the appends of one tag do not overlap each other nor an
\* invalidate, every registered key is enumerable from the record and each
\* registration leaves the record it found extended by exactly the parent
\* key, at the end.
C5_AppendOnly_Original ==
  /\ Enumerable
  /\ \A t \in WrittenTasks : t.val = Append(t.over, Str(t.parent_key))

\* C5 amended: the same, for the registrations whose record did not expire
\* between the read and the write of the append.
C5_AppendOnly ==
  /\ Enumerable
  /\ \A t \in WrittenTasks :
       t.seen = t.over => t.val = Append(t.over, Str(t.parent_key))

\* an append has extended a record that was there, keeping what it held
C5_Witness ==
  \E t \in WrittenTasks :
    /\ t.over # <<>>
    /\ t.over[Len(t.over)] # Str(t.parent_key)
    /\ t.seen = t.over
    /\ t.key \in DOMAIN store
    /\ decode(store[t.key].val) = Append(t.over, Str(t.parent_key))

\* the expire of the call whose provide batch task t belongs to
GivenExpire(t) ==
  LET c == CHOOSE d \in Callers : t \in Range(atasks[d]) IN call[c].ttl

\* C6 as stated: every write of a tag record by provide(..., ttlSeconds, ...)
\* stores it with TTL max(ttlSeconds, default expire).
C6_RecordTTL_Original ==
  \A t \in WrittenTasks : t.ttl0 = MaxExpire(GivenExpire(t))

\* C6 amended: every write of a tag record by provide stores it with TTL
\* ttlSeconds when that is given and not 0, and with the default expire
\* otherwise.
C6_RecordTTL ==
  \A t \in WrittenTasks :
    t.ttl0 = IF GivenExpire(t) \in {None, 0} THEN get_expire ELSE GivenExpire(t)

\* a record was written for a call whose expire is below the default
C6_Witness ==
  \E t \in WrittenTasks :
    /\ GivenExpire(t) \notin {None, 0}
    /\ GivenExpire(t) < get_expire
    /\ t.ttl0 = GivenExpire(t)

\* C9: a call for a key whose last store is older than its TTL, with no store
\* in between, is a MISS and runs computeFn again.
C9_TTLExpiry ==
  \A c \in Callers : CallReturned(c) /\ call[c].lapsed =>
    call[c].status = "MISS" /\ call[c].computes = 1

\* a call returns as a MISS for a key that was stored and has expired
C9_Witness ==
  \E c \in Callers :
    /\ CallReturned(c)
    /\ call[c].lapsed
    /\ call[c].status = "MISS"
    /\ call[c].key \in DOMAIN store

\* no provide and no invalidate hands a failure of its batch to its caller
NoRaise ==
  /\ \A c \in Callers : call[c].pc = "done" => ~call[c].err
  /\ inv.pc = "done" => ~inv.err

\* what the backend calls that succeeded did is still there
EffectsKept ==
  /\ \A c \in Callers : \A t \in Range(atasks[c]) : t.pc = "done" =>
       /\ t.key \in DOMAIN store
       /\ Str(t.parent_key) \in Range(decode(store[t.key].val))
  /\ \A t \in Range(itasks) : t.pc = "done" /\ IsStr(t.key) =>
       t.key.str \notin DOMAIN store

\* C7: when backend calls of a provide or invalidate batch fail, the provide
\* or invalidate still completes without raising the failure to the operation
\* that triggered it, and the effects of the calls that succeeded are kept.
C7_PartialFailure == NoRaise /\ EffectsKept

\* the keys of the value entries that stand as stored, and of the tag
\* records that stand as written by provide
ValueEntries == {f.key : f \in {g \in fresh : g.ok}} \cap DOMAIN store

TagRecords == {p[1] : p \in reg}

\* C8: in every reachable backend state no key is both a value entry and a
\* tag-index record, for every choice of prefix, namespace, operation
\* identity, object type and object id: a provide never overwrites a cached
\* value and a value store never overwrites a tag record.
C8_KeyFamiliesDisjoint == ValueEntries \cap TagRecords = {}

\* the keys that build gives the operations of namespace ns
BuiltUnder(ns) ==
  {build(o.ns, o.op, q) : o \in {p \in ops : p.ns = ns}, q \in queries}

\* C10: clear(N) removes every value entry stored under namespace N and
\* leaves every entry of every other namespace, and every tag-index record,
\* present and unchanged.
C10_NamespaceClear ==
  [][\A o \in ops : ClearNamespace(o.ns) =>
       /\ \A k \in DOMAIN store \cap BuiltUnder(o.ns) : k \notin DOMAIN store'
       /\ \A k \in DOMAIN store \ BuiltUnder(o.ns) :
            k \in DOMAIN store' /\ store'[k] = store[k]]_vars

\* tasks t1 and t2 of two provide calls raced on one tag with different
\* parent keys: both read the same record, t2 wrote over what t1 had written
Raced(t1, t2) ==
  /\ t1.pc = "done" /\ t2.pc = "done"
  /\ t1.key = t2.key
  /\ t1.parent_key # t2.parent_key
  /\ t1.seen = t2.seen
  /\ t2.over = t1.val
  /\ Str(t1.parent_key) \notin Range(t1.seen)

\* the pairs of tasks of two different calls
TaskPairs ==
  {<<t1, t2>> : t1 \in Range(atasks[1]), t2 \in Range(atasks[2])}
    \cup {<<t1, t2>> : t1 \in Range(atasks[2]), t2 \in Range(atasks[1])}

\* C11: two concurrent provide calls with different parent keys K1 and K2
\* for the same tag, both reading the record before either writes it, lose
\* an update: the record written last holds K2 and not K1, and an invalidate
\* of that tag that reads this record leaves K1's cache entry present.
C11_LostUpdate ==
  \A p \in TaskPairs : Raced(p[1], p[2]) =>
    /\ Str(p[2].parent_key) \in Range(p[2].val)
    /\ Str(p[1].parent_key) \notin Range(p[2].val)
    /\ ( /\ InvalidateReturned
         /\ inv.tag = p[2].key
         /\ inv.tag \in DOMAIN inv.before
         /\ decode(inv.before[inv.tag].val) = p[2].val
         /\ p[1].parent_key \in DOMAIN inv.before )
       => p[1].parent_key \in DOMAIN store

\* both calls have returned normally, the record lost K1, and the invalidate
\* that followed removed K2's entry and left K1's
C11_Witness ==
  \E p \in TaskPairs :
    /\ Raced(p[1], p[2])
    /\ \A c \in Callers : CallReturned(c)
    /\ InvalidateReturned
    /\ inv.tag = p[2].key
    /\ inv.tag \in DOMAIN inv.before
    /\ decode(inv.before[inv.tag].val) = p[2].val
    /\ p[1].parent_key \in DOMAIN inv.before
    /\ p[1].parent_key \in DOMAIN store
    /\ p[2].parent_key \notin DOMAIN store
    /\ inv.x \in ItemIds(store[p[1].parent_key].val)

\* C12: when provide returns normally and no other provide or invalidate
\* touched the same tags meanwhile, the tag record of every item of its data
\* contains the parent key, for every interleaving of the appends, also when
\* several items resolve to the same tag and race on its record.
C12_ProvideJoins ==
  \A c \in Callers : CallReturned(c) =>
    \A t \in Range(atasks[c]) :
      /\ t.key \in DOMAIN store
      /\ Str(call[c].key) \in Range(decode(store[t.key].val))

\* provide has returned after two of its appends raced on one tag: both read
\* the record before either wrote it
C12_Witness ==
  \E c \in Callers :
    /\ CallReturned(c)
    /\ \E i, j \in 1..Len(atasks[c]) :
         /\ i # j
         /\ atasks[c][i].key = atasks[c][j].key
         /\ atasks[c][i].seen = atasks[c][j].seen
         /\ atasks[c][j].over = atasks[c][i].val
         /\ Str(call[c].key) \in Range(decode(store[atasks[c][j].key].val))

\* C13: for every cache key K registered under tag T the record of T does not
\* expire while K's entry is still present: once the provide calls are
\* through, the record's time to live is at least that of every live member
\* entry, and the record of every object a live entry includes is there.
C13_IndexTTL ==
  Quiet =>
    /\ \A p \in reg : p[2] \in DOMAIN store =>
         store[p[1]].ttl >= store[p[2]].ttl
    /\ \A f \in {g \in fresh : g.ok /\ g.key \in DOMAIN store} :
         \A x \in ItemIds(store[f.key].val) :
           get_tag(NoItem, x) \in DOMAIN store

\* no backend call of the batch is still to come
Settled(tasks) ==
  \A i \in 1..Len(tasks) : tasks[i].pc \notin {"get", "set", "pending"}

\* the tasks of a batch whose own backend call failed
OwnFailures(tasks) == {i \in 1..Len(tasks) : tasks[i].pc = "failed"}

\* the appends of c's batch that are not in their record, and the deletes of
\* the invalidate batch whose key is still there
Unwritten(c) ==
  {i \in 1..Len(atasks[c]) :
     ~ /\ atasks[c][i].key \in DOMAIN store
       /\ Str(atasks[c][i].parent_key)
            \in Range(decode(store[atasks[c][i].key].val))}

Undeleted ==
  {i \in 1..Len(itasks) : IsStr(itasks[i].key) /\ itasks[i].key.str \in DOMAIN store}

\* C14: when a backend call of a provide or invalidate batch fails, every
\* other backend call of the batch is still issued and runs to completion:
\* once the batch is through, only the appends that failed themselves are
\* missing from their records and only the deletes that failed themselves
\* have left their key.
C14_NoCancel ==
  /\ \A c \in Callers : Settled(atasks[c]) =>
       Cardinality(Unwritten(c)) <= Cardinality(OwnFailures(atasks[c]))
  /\ Settled(itasks) => Cardinality(Undeleted) <= Cardinality(OwnFailures(itasks))

\* provide has raised the failure of one append, its batch is through and
\* another append of the batch is written all the same
C14_Witness ==
  \E c \in Callers :
    /\ call[c].pc = "done" /\ call[c].err
    /\ Settled(atasks[c])
    /\ Cardinality(OwnFailures(atasks[c])) = 1
    /\ \E i \in 1..Len(atasks[c]) :
         /\ atasks[c][i].pc = "done"
         /\ i \notin Unwritten(c)

\* C15: when invalidate(X) hands control back, normally or with the error of
\* a failed delete, the delete of every listed key and of the record itself
\* has been attempted: none is still pending.
C15_ReturnsAfterBatch ==
  inv.pc = "done" => \A i \in 1..Len(itasks) : itasks[i].pc # "pending"

\* C16: when the tag record of X is absent, invalidate(X) issues no backend
\* set or delete and leaves the whole backend unchanged; so a second
\* invalidate(X) right after a first one changes nothing.
C16_AbsentIsNoOp ==
  (inv.pc \in {"gather", "done"} /\ inv.tag \notin DOMAIN inv.before) =>
    /\ itasks = <<>>
    /\ store = inv.before

\* a second invalidate of the same object has returned over a backend that
\* still holds entries: the file was edited twice, no other file was
C16_Witness ==
  /\ InvalidateReturned
  /\ inv.tag \notin DOMAIN inv.before
  /\ DOMAIN store # {}
  /\ left.invs = SeqInvs - 2
  /\ files[inv.x] = 2 % (MaxVal + 1)
  /\ \A y \in idspace \ {inv.x} : files[y] = 0

\* C17: for every object id v an item can carry, 0 included, the tag that
\* invalidate(v) reads and clears is the tag under which provide registers an
\* item with id v; invalidate(v) never resolves the id from a missing item.
C17_SameTag ==
  inv.pc # "idle" =>
    /\ inv.tag # Raised
    /\ inv.tag = get_tag([id |-> inv.x, value |-> 0], None)

\* C18: when the tag record of X lists a cache key more than once or lists
\* keys whose entries are already absent, invalidate(X) completes without
\* error under every interleaving of its deletes, and afterwards every listed
\* key and the record are absent.
C18_DuplicatesAndDangling ==
  /\ \A i \in 1..Len(itasks) : itasks[i].pc # "failed"
  /\ inv.pc = "done" =>
       /\ ~inv.err
       /\ \A i \in 1..Len(itasks) :
            /\ itasks[i].pc = "done"
            /\ itasks[i].key.str \notin DOMAIN store

\* invalidate has returned over a record that listed one key twice and a key
\* whose entry was absent when the invalidate started
C18_Witness ==
  /\ InvalidateReturned
  /\ \E i, j \in 1..Len(itasks) : i < j /\ itasks[i].key = itasks[j].key
  /\ \E i \in 1..Len(itasks) : itasks[i].key.str \notin DOMAIN inv.before
  /\ inv.tag \in DOMAIN inv.before
  /\ inv.tag \notin DOMAIN store

\* two calls for the same key that both missed and have both stored
BothMissed(c, d) ==
  /\ c # d
  /\ call[c].key = call[d].key
  /\ call[c].status = "MISS" /\ call[d].status = "MISS"
  /\ call[c].pc \in {"gather", "done"} /\ call[d].pc \in {"gather", "done"}

\* C19: there is no single-flight: two calls for one key that both read the
\* backend before either has stored each run computeFn once and each write
\* the key; the key then holds the result of whichever stored last, one of
\* the two computed results, and each call returns its own result as a MISS.
C19_LastWriteWins ==
  \A c, d \in Callers : BothMissed(c, d) =>
    /\ call[c].computes = 1 /\ call[d].computes = 1
    /\ \E f \in fresh :
         /\ f.key = call[c].key
         /\ f.by \in {c, d}
         /\ call[c].key \in DOMAIN store =>
              decode(store[call[c].key].val) = call[f.by].result

\* both calls have returned a MISS with different results for one key, no
\* delete ran in between, and the key holds what the last store wrote
C19_Witness ==
  \E c, d \in Callers :
    /\ BothMissed(c, d)
    /\ call[c].pc = "done" /\ call[d].pc = "done"
    /\ ~call[c].err /\ ~call[d].err
    /\ call[c].result # call[d].result
    /\ left.invs = MaxInvs - 1 /\ inv.pc # "idle" /\ itasks = <<>>
    /\ call[c].key \in DOMAIN store
    /\ \E f \in fresh : f.key = call[c].key /\ f.by = c
                        /\ decode(store[call[c].key].val) = call[c].result

====
